---- MODULE Spec2Model ----
(***************************************************************************)
(* Model of src/github/trending.py: one run of the GitHub Trending report  *)
(* job (fetch -> enrich -> render -> preview write -> email send).         *)
(*                                                                         *)
(* Python values are modelled structurally:                                *)
(*   - an environment variable is "unset", "empty" or "set";               *)
(*   - a repo dict is a record with the six keys fetch_trending builds;    *)
(*   - a JSON object returned by the AI call is a record that carries the  *)
(*     set of keys it has (`keys`), so that dict.get defaults and the      *)
(*     truthiness test `not ai_data` are computed as Python computes them; *)
(*   - a score is [isNum, val]: a number, or the placeholder '-';          *)
(*   - the HTML document is the record of the values interpolated into it. *)
(***************************************************************************)
EXTENDS FiniteSets, Integers, Sequences, TLC

\* Longest listing page (number of article elements) explored.
MaxRepos == 4

----------------------------------------------------------------------------
\* Environment (os.environ.get)

EnvValues == {"unset", "empty", "set"}

\* Python truthiness of os.environ.get(NAME): None and "" are falsy.
EnvTruthy(v) == v = "set"

----------------------------------------------------------------------------
\* fetch_trending: the listing page and its extraction

Absent == "<absent>"

\* The article.Box-row elements a page may contain.  h2 is the text of the
\* 'h2.h3 a' element after whitespace stripping (Absent: no such element).
Articles ==
  { [h2 |-> "a/b",     href |-> "/a/b",     p |-> "desc ab",  lang |-> "Go",
     stars |-> "10",   today |-> "5 stars today"],
    [h2 |-> "c/vault", href |-> "/c/vault", p |-> Absent,     lang |-> "Python",
     stars |-> "1,200", today |-> Absent],
    [h2 |-> "a/b",     href |-> "/a/b",     p |-> "desc ab2", lang |-> Absent,
     stars |-> Absent, today |-> "900 stars today"],
    [h2 |-> Absent,    href |-> Absent,     p |-> "ad",       lang |-> "Go",
     stars |-> "3",    today |-> Absent] }

OrDefault(v, d) == IF v = Absent THEN d ELSE v

ParseArticle(a) ==
  [name        |-> a.h2,
   url         |-> <<"https://github.com", a.href>>,
   description |-> OrDefault(a.p, "No description provided."),
   language    |-> OrDefault(a.lang, "Unknown"),
   stars       |-> OrDefault(a.stars, "0"),
   stars_today |-> OrDefault(a.today, "")]

RECURSIVE ParsePage(_)
ParsePage(page) ==
  IF page = <<>> THEN <<>>
  ELSE IF Head(page).h2 = Absent THEN ParsePage(Tail(page))
       ELSE <<ParseArticle(Head(page))>> \o ParsePage(Tail(page))

Pages == UNION { [1..n -> Articles] : n \in 0..MaxRepos }

StatusCodes == {200, 404, 503}

----------------------------------------------------------------------------
\* Scores, translations and AI (enrichment) values

Num(n) == [isNum |-> TRUE, val |-> n]
Placeholder == [isNum |-> FALSE, val |-> 0]
ScoreAtLeast8(s) == s.isNum /\ s.val >= 8

Text(kind, arg) == [kind |-> kind, arg |-> arg]

EmptyDist == [l \in {} |-> <<>>]
NoStats == [total_projects |-> 0, average_score |-> "0", language_count |-> 0]

ProjectKeys == {"name", "translation", "score", "tech_stack", "is_recommended"}

NoneAi ==
  [isNone |-> TRUE, keys |-> {}, summary |-> "", stats |-> NoStats,
   language_distribution |-> EmptyDist, projects |-> <<>>]

\* JSON objects the generative-text service may return.
AiEmptyObject == [NoneAi EXCEPT !.isNone = FALSE]

AiNoProjects ==
  [NoneAi EXCEPT !.isNone = FALSE, !.keys = {"summary", "projects"},
                 !.summary = "ai narrative"]

AiInconsistent ==
  [NoneAi EXCEPT !.isNone = FALSE, !.keys = {"summary", "stats", "projects"},
                 !.summary = "ai narrative",
                 !.stats = [total_projects |-> 1, average_score |-> "9",
                            language_count |-> 1],
                 !.projects = << [keys |-> ProjectKeys, name |-> "a/b",
                                  translation |-> Text("ai", "a/b"),
                                  score |-> Num(9),
                                  tech_stack |-> <<"LLM", "CLI", "Go">>,
                                  is_recommended |-> FALSE] >>]

AiResults == {AiEmptyObject, AiNoProjects, AiInconsistent}

\* Python `not ai_data` is False exactly for a non-empty dict.
Truthy(ai) == ~ai.isNone /\ ai.keys # {}

\* dict.get(key, default)
Get(d, key, val, default) == IF key \in d.keys THEN val ELSE default

----------------------------------------------------------------------------
\* get_mock_ai_data

MockTag(lang) ==
  IF lang = "Go" THEN "DevOps" ELSE IF lang = "Python" THEN "AI/LLM" ELSE "Web"

RECURSIVE GroupLanguages(_, _)
GroupLanguages(repos, languages) ==
  IF repos = <<>> THEN languages
  ELSE LET lang == Head(repos).language
           l1 == IF lang \notin DOMAIN languages
                 THEN [x \in DOMAIN languages \cup {lang} |->
                         IF x = lang THEN <<>> ELSE languages[x]]
                 ELSE languages
           l2 == [l1 EXCEPT ![lang] = Append(@, MockTag(lang))]
       IN  GroupLanguages(Tail(repos), l2)

\* r["name"].split('/')[-1] on the identifiers that occur in Articles.
ShortName(name) ==
  CASE name = "a/b" -> "b"
    [] name = "c/vault" -> "vault"
    [] OTHER -> name

MockTranslationKeys ==
  {"openclaw", "system_prompts_leaks", "kimi-cli", "ext-apps", "memU",
   "vault", "protobuf", "whatsapp-web.js"}

MockTranslation(r) ==
  IF ShortName(r.name) \in MockTranslationKeys
  THEN Text("mock", ShortName(r.name))
  ELSE Text("generic", r.language)

\* Variant: the high score reaches one record too far.
MockScoreOffByOne(i) == IF i <= 3 THEN 9 ELSE 7

MockScore(i) == IF i < 3 THEN 9 ELSE 7

\* Variant: the recommendation threshold is one too low.
MockRecommendedLoose(score) == score >= 7

MockRecommended(score) == score >= 8

\* i is the 0-based enumerate index of r.
MockProject(i, r) ==
  [keys           |-> ProjectKeys,
   name           |-> r.name,
   translation    |-> MockTranslation(r),
   score          |-> Num(MockScore(i)),
   tech_stack     |-> <<r.language, "Open Source", "Hot">>,
   is_recommended |-> MockRecommended(MockScore(i))]

MockNarrative == "demo-mode narrative"

get_mock_ai_data(repos) ==
  LET languages == GroupLanguages(repos, EmptyDist) IN
  [isNone  |-> FALSE,
   keys    |-> {"summary", "stats", "language_distribution", "projects"},
   summary |-> MockNarrative,
   stats   |-> [total_projects |-> Len(repos), average_score |-> "8.2",
                language_count |-> Cardinality(DOMAIN languages)],
   language_distribution |-> languages,
   projects |-> [i \in 1..Len(repos) |-> MockProject(i - 1, repos[i])]]

----------------------------------------------------------------------------
\* generate_html

\* {p['name']: p for p in projects}: a later entry replaces an earlier one.
ProjectsMap(projects) ==
  [n \in {projects[i].name : i \in DOMAIN projects} |->
     projects[CHOOSE i \in DOMAIN projects :
                /\ projects[i].name = n
                /\ \A j \in DOMAIN projects : projects[j].name = n => j <= i]]

NoProject ==
  [keys |-> {}, name |-> "", translation |-> Text("", ""), score |-> Placeholder,
   tech_stack |-> <<>>, is_recommended |-> FALSE]

MergeProject(r, ai_projects_map) ==
  LET p_ai == IF r.name \in DOMAIN ai_projects_map
              THEN ai_projects_map[r.name] ELSE NoProject
  IN  [name           |-> r.name,
       url            |-> r.url,
       stars          |-> r.stars,
       stars_today    |-> r.stars_today,
       translation    |-> Get(p_ai, "translation", p_ai.translation,
                              Text("description", r.description)),
       score          |-> Get(p_ai, "score", p_ai.score, Placeholder),
       tech_stack     |-> Get(p_ai, "tech_stack", p_ai.tech_stack,
                              <<r.language>>),
       is_recommended |-> Get(p_ai, "is_recommended", p_ai.is_recommended,
                              FALSE)]

\* One <div class="repo"> block; idx is the 0-based enumerate index.
\* badge is TRUE when the recommend-badge div is emitted, FALSE when the
\* score-text div is emitted.
RenderEntry(idx, p) ==
  [rank        |-> idx + 1,
   name        |-> p.name,
   url         |-> p.url,
   translation |-> p.translation,
   badge       |-> p.is_recommended,
   score       |-> p.score,
   tags        |-> p.tech_stack,
   stars       |-> p.stars,
   stars_today |-> p.stars_today]

NoHtml ==
  [count |-> 0, summary |-> "", stats |-> NoStats, lang_dist |-> EmptyDist,
   entries |-> <<>>]

\* The body of `if not ai_data:` (lines 175-227) is the only place where
\* summary_section, lang_section and projects_data are bound, so the loop at
\* line 231 raises UnboundLocalError when ai_data is a non-empty dict.
generate_html(repos, ai_data) ==
  IF ~Truthy(ai_data)
  THEN LET data == get_mock_ai_data(repos)
           ai_projects_map == ProjectsMap(Get(data, "projects", data.projects, <<>>))
           projects_data == [i \in 1..Len(repos) |->
                               MergeProject(repos[i], ai_projects_map)]
       IN  [raised |-> FALSE,
            mock   |-> data,
            html   |-> [count     |-> Len(repos),
                        summary   |-> Get(data, "summary", data.summary, ""),
                        stats     |-> Get(data, "stats", data.stats, NoStats),
                        lang_dist |-> Get(data, "language_distribution",
                                          data.language_distribution, EmptyDist),
                        entries   |-> [i \in 1..Len(projects_data) |->
                                         RenderEntry(i - 1, projects_data[i])]]]
  ELSE [raised |-> TRUE, mock |-> NoneAi, html |-> NoHtml]

----------------------------------------------------------------------------
\* State of one run

VARIABLES
  env,            \* OPENAI_API_KEY, RESEND_API_KEY, RECEIVER_EMAIL
  pc,             \* position in the __main__ block
  response_status,\* status_code of the listing response (0: no response)
  trending_repos, \* result of fetch_trending()
  ai_data,        \* result of analyze_with_ai(), or None
  render_result,  \* "none" | "ok" | "raised": outcome of generate_html
  mock_data,      \* what get_mock_ai_data returned when it was called
  html_content,   \* the rendered document
  preview,        \* trending_preview.html on disk
  outbox,         \* emails accepted by the email API
  ops,            \* external operations started, in order
  inflight,       \* external operations started and not yet returned
  log,            \* kinds of lines printed
  exit_code       \* process exit status

vars == <<env, pc, response_status, trending_repos, ai_data, render_result, mock_data,
          html_content, preview, outbox, ops, inflight, log, exit_code>>

NoFile == [exists |-> FALSE, content |-> NoHtml]

client == EnvTruthy(env.OPENAI_API_KEY)

Init ==
  /\ env \in [OPENAI_API_KEY : EnvValues, RESEND_API_KEY : EnvValues,
              RECEIVER_EMAIL : EnvValues]
  /\ pc = "start"
  /\ response_status = 0
  /\ trending_repos = <<>>
  /\ ai_data = NoneAi
  /\ render_result = "none"
  /\ mock_data = NoneAi
  /\ html_content = NoHtml
  /\ preview = NoFile
  /\ outbox = <<>>
  /\ ops = <<>>
  /\ inflight = {}
  /\ log = {}
  /\ exit_code = 0

\* except Exception as e: print(...); exit(1)
Abort ==
  /\ log' = log \cup {"An error occurred"}
  /\ exit_code' = 1
  /\ pc' = "done"

\* requests.get(url, headers=headers) is issued.
FetchCall ==
  /\ pc = "start"
  /\ ops' = Append(ops, "get")
  /\ inflight' = inflight \cup {"get"}
  /\ log' = log \cup {"Fetching"}
  /\ pc' = "get_pending"
  /\ UNCHANGED <<env, response_status, trending_repos, ai_data, render_result, mock_data,
                 html_content, preview, outbox, exit_code>>

\* requests.get raises (network failure).
FetchNetworkError ==
  /\ pc = "get_pending"
  /\ inflight' = inflight \ {"get"}
  /\ Abort
  /\ UNCHANGED <<env, response_status, trending_repos, ai_data, render_result, mock_data,
                 html_content, preview, outbox, ops>>

\* Variant: the status code is not checked, the body is parsed regardless.
FetchReturnNoStatusCheck ==
  /\ pc = "get_pending"
  /\ inflight' = inflight \ {"get"}
  /\ \E status \in StatusCodes, page \in Pages :
       /\ response_status' = status
       /\ trending_repos' = ParsePage(page)
       /\ log' = log \cup {"Found"}
       /\ pc' = "fetched"
       /\ UNCHANGED exit_code
  /\ UNCHANGED <<env, ai_data, render_result, mock_data, html_content,
                 preview, outbox, ops>>

\* requests.get returns a response; the rest of fetch_trending runs.
FetchReturn ==
  /\ pc = "get_pending"
  /\ inflight' = inflight \ {"get"}
  /\ \E status \in StatusCodes, page \in Pages :
       /\ response_status' = status
       /\ IF status # 200
          THEN /\ Abort
               /\ UNCHANGED trending_repos
          ELSE /\ trending_repos' = ParsePage(page)
               /\ log' = log \cup {"Found"}
               /\ pc' = "fetched"
               /\ UNCHANGED exit_code
  /\ UNCHANGED <<env, ai_data, render_result, mock_data, html_content,
                 preview, outbox, ops>>

\* `if client:` is false.
SkipAi ==
  /\ pc = "fetched"
  /\ ~client
  /\ log' = log \cup {"Skipping AI analysis"}
  /\ pc' = "analyzed"
  /\ UNCHANGED <<env, response_status, trending_repos, ai_data, render_result, mock_data,
                 html_content, preview, outbox, ops, inflight, exit_code>>

\* analyze_with_ai: client.chat.completions.create is issued.
AiCall ==
  /\ pc = "fetched"
  /\ client
  /\ ops' = Append(ops, "ai")
  /\ inflight' = inflight \cup {"ai"}
  /\ log' = log \cup {"Running AI analysis"}
  /\ pc' = "ai_pending"
  /\ UNCHANGED <<env, response_status, trending_repos, ai_data, render_result, mock_data,
                 html_content, preview, outbox, exit_code>>

\* The request or json.loads raises: caught, analyze_with_ai returns None.
AiFail ==
  /\ pc = "ai_pending"
  /\ inflight' = inflight \ {"ai"}
  /\ ai_data' = NoneAi
  /\ log' = log \cup {"AI Analysis failed", "AI analysis completed"}
  /\ pc' = "analyzed"
  /\ UNCHANGED <<env, response_status, trending_repos, render_result, mock_data, html_content,
                 preview, outbox, ops, exit_code>>

\* The response parses as a JSON object.
AiReturn ==
  /\ pc = "ai_pending"
  /\ inflight' = inflight \ {"ai"}
  /\ \E result \in AiResults : ai_data' = result
  /\ log' = log \cup {"AI analysis completed"}
  /\ pc' = "analyzed"
  /\ UNCHANGED <<env, response_status, trending_repos, render_result, mock_data, html_content,
                 preview, outbox, ops, exit_code>>

\* html_content = generate_html(trending_repos, ai_data)
Render ==
  /\ pc = "analyzed"
  /\ LET r == generate_html(trending_repos, ai_data) IN
       IF r.raised
       THEN /\ render_result' = "raised"
            /\ Abort
            /\ UNCHANGED <<mock_data, html_content>>
       ELSE /\ render_result' = "ok"
            /\ mock_data' = r.mock
            /\ html_content' = r.html
            /\ log' = log \cup {"Using Mock AI Data"}
            /\ pc' = "rendered"
            /\ UNCHANGED exit_code
  /\ UNCHANGED <<env, response_status, trending_repos, ai_data, preview, outbox, ops, inflight>>

\* open(preview_path, "w") / f.write(html_content) is started.
WriteCall ==
  /\ pc = "rendered"
  /\ ops' = Append(ops, "write")
  /\ inflight' = inflight \cup {"write"}
  /\ pc' = "write_pending"
  /\ UNCHANGED <<env, response_status, trending_repos, ai_data, render_result, mock_data,
                 html_content, preview, outbox, log, exit_code>>

WriteOk ==
  /\ pc = "write_pending"
  /\ inflight' = inflight \ {"write"}
  /\ preview' = [exists |-> TRUE, content |-> html_content]
  /\ log' = log \cup {"Preview HTML saved"}
  /\ pc' = "written"
  /\ UNCHANGED <<env, response_status, trending_repos, ai_data, render_result, mock_data,
                 html_content, outbox, ops, exit_code>>

\* open() raises (file untouched) or f.write raises after open() truncated
\* the file; neither is handled inside the with block.
WriteFail ==
  /\ pc = "write_pending"
  /\ inflight' = inflight \ {"write"}
  /\ \E opened \in BOOLEAN :
       preview' = IF opened THEN [exists |-> TRUE, content |-> NoHtml]
                  ELSE preview
  /\ Abort
  /\ UNCHANGED <<env, response_status, trending_repos, ai_data, render_result, mock_data,
                 html_content, outbox, ops>>

\* Variant: `or` in place of `and`.
CanSendEither == EnvTruthy(env.RESEND_API_KEY) \/ EnvTruthy(env.RECEIVER_EMAIL)

CanSend == EnvTruthy(env.RESEND_API_KEY) /\ EnvTruthy(env.RECEIVER_EMAIL)

\* The else branch of the delivery condition: normal end of the run.
SkipSend ==
  /\ pc = "written"
  /\ ~CanSend
  /\ log' = log \cup {"Skipping email sending"}
  /\ pc' = "done"
  /\ UNCHANGED <<env, response_status, trending_repos, ai_data, render_result, mock_data,
                 html_content, preview, outbox, ops, inflight, exit_code>>

\* send_email up to the call of resend.Emails.send.
SendCall ==
  /\ pc = "written"
  /\ CanSend
  /\ IF ~EnvTruthy(env.RECEIVER_EMAIL)
     THEN /\ log' = log \cup {"RECEIVER_EMAIL is not set"}
          /\ pc' = "done"
          /\ UNCHANGED <<ops, inflight>>
     ELSE /\ ops' = Append(ops, "send")
          /\ inflight' = inflight \cup {"send"}
          /\ log' = log \cup {"Sending email"}
          /\ pc' = "send_pending"
  /\ UNCHANGED <<env, response_status, trending_repos, ai_data, render_result, mock_data,
                 html_content, preview, outbox, exit_code>>

SendOk ==
  /\ pc = "send_pending"
  /\ inflight' = inflight \ {"send"}
  /\ outbox' = Append(outbox, [to |-> "RECEIVER_EMAIL", html |-> html_content])
  /\ log' = log \cup {"Email sent successfully"}
  /\ pc' = "done"
  /\ UNCHANGED <<env, response_status, trending_repos, ai_data, render_result, mock_data,
                 html_content, preview, ops, exit_code>>

\* Variant: the failed send is attempted again.
SendFailRetry ==
  /\ pc = "send_pending"
  /\ inflight' = inflight \ {"send"}
  /\ log' = log \cup {"Error sending email"}
  /\ pc' = "written"
  /\ UNCHANGED <<env, response_status, trending_repos, ai_data, render_result,
                 mock_data, html_content, preview, outbox, ops, exit_code>>

\* Variant: the exception of the send escapes send_email.
SendFailUncaught ==
  /\ pc = "send_pending"
  /\ inflight' = inflight \ {"send"}
  /\ Abort
  /\ UNCHANGED <<env, response_status, trending_repos, ai_data, render_result,
                 mock_data, html_content, preview, outbox, ops>>

\* resend.Emails.send raises: caught inside send_email.
SendFail ==
  /\ pc = "send_pending"
  /\ inflight' = inflight \ {"send"}
  /\ log' = log \cup {"Error sending email"}
  /\ pc' = "done"
  /\ UNCHANGED <<env, response_status, trending_repos, ai_data, render_result, mock_data,
                 html_content, preview, outbox, ops, exit_code>>

Next ==
  \/ FetchCall \/ FetchNetworkError \/ FetchReturn
  \/ SkipAi \/ AiCall \/ AiFail \/ AiReturn
  \/ Render
  \/ WriteCall \/ WriteOk \/ WriteFail
  \/ SkipSend \/ SendCall \/ SendOk \/ SendFail

Spec == Init /\ [][Next]_vars

----------------------------------------------------------------------------
\* Properties

Range(s) == {s[i] : i \in DOMAIN s}

FetchSucceeded == "Found" \in log
WriteFailed == pc = "done" /\ "write" \in Range(ops) /\ "Preview HTML saved" \notin log
Configured == env.RESEND_API_KEY = "set" /\ env.RECEIVER_EMAIL = "set"
Entries == html_content.entries

\* C1: whenever the listing fetch succeeded, the finished run has rendered a
\* Report and started the preview write, whatever the enrichment outcome
\* (skipped, failed, or a parsed non-empty result).
C1_RenderSurvivesEnrichment ==
  (pc = "done" /\ FetchSucceeded) =>
     (render_result = "ok" /\ "write" \in Range(ops))

\* C2: after a failed preview write the run still evaluates the
\* delivery condition (sending when credential and destination are
\* configured) and exits with code 0.
C2_WriteFailureNotFatal ==
  WriteFailed =>
     /\ exit_code = 0
     /\ Configured => "send" \in Range(ops)

\* C3: a listing response whose status is not 200 aborts the run with exit
\* code 1, and no enrichment request, render, preview write or email send
\* happens.
C3_FetchFailureAborts ==
  (response_status \notin {0, 200}) =>
     /\ pc = "done"
     /\ exit_code = 1
     /\ ops = <<"get">>
     /\ render_result = "none"
     /\ html_content = NoHtml
     /\ preview = NoFile
     /\ outbox = <<>>

C3_Witness == response_status = 404 /\ pc = "done" /\ Configured /\ client

\* C4: a send request is submitted only when both RESEND_API_KEY and
\* RECEIVER_EMAIL are configured; when either is missing the delivery step
\* skips the send, the preview artifact holds the Report, and the exit code
\* is 0.
C4_SendOnlyWhenConfigured ==
  /\ ("send" \in Range(ops) \/ outbox # <<>>) => Configured
  /\ (pc = "done" /\ "Preview HTML saved" \in log /\ ~Configured) =>
        /\ "Skipping email sending" \in log
        /\ "send" \notin Range(ops)
        /\ preview = [exists |-> TRUE, content |-> html_content]
        /\ exit_code = 0

C4_Witness ==
  /\ pc = "done"
  /\ "Skipping email sending" \in log
  /\ env.RESEND_API_KEY = "set"
  /\ env.RECEIVER_EMAIL = "empty"
  /\ preview.exists
  /\ Len(Entries) > 0

\* C5: when the Renderer is given a non-empty EnrichmentResult, each Record
\* without a matching per_item entry is rendered with its own summary, the
\* placeholder score, no badge and the tag list [primary_language]; each
\* Record with a matching entry shows that entry's translation, score and
\* tags.
C5_MergeFallback ==
  (render_result # "none" /\ Truthy(ai_data)) =>
     /\ render_result = "ok"
     /\ Len(Entries) = Len(trending_repos)
     /\ \A i \in 1..Len(trending_repos) :
          LET r == trending_repos[i]
              e == Entries[i]
              m == {j \in DOMAIN ai_data.projects : ai_data.projects[j].name = r.name}
          IN  IF m = {}
              THEN /\ e.translation = Text("description", r.description)
                   /\ e.score = Placeholder
                   /\ ~e.badge
                   /\ e.tags = <<r.language>>
              ELSE \E j \in m : /\ e.translation = ai_data.projects[j].translation
                                /\ e.score = ai_data.projects[j].score
                                /\ e.tags = ai_data.projects[j].tech_stack

\* C6: every entry of the rendered document carries the recommendation
\* badge iff the score it displays is a number >= 8.
C6_BadgeIffScoreAtLeast8 ==
  \A i \in DOMAIN Entries : Entries[i].badge <=> ScoreAtLeast8(Entries[i].score)

\* A document whose first and fourth records share an identifier, with a
\* badge on some entry and none on another.
C6_Witness ==
  /\ render_result = "ok"
  /\ Len(Entries) = 4
  /\ Entries[1].name = Entries[4].name
  /\ \E i, j \in DOMAIN Entries : Entries[i].badge /\ ~Entries[j].badge

\* C7: every call of the Renderer emits exactly one entry per input Record,
\* in input order, with rank i for the i-th Record, and the header count is
\* the number of Records.
C7_OneEntryPerRecord ==
  (render_result # "none") =>
     /\ render_result = "ok"
     /\ html_content.count = Len(trending_repos)
     /\ Len(Entries) = Len(trending_repos)
     /\ \A i \in 1..Len(trending_repos) :
          /\ Entries[i].rank = i
          /\ Entries[i].name = trending_repos[i].name
          /\ Entries[i].url = trending_repos[i].url
          /\ Entries[i].stars = trending_repos[i].stars
          /\ Entries[i].stars_today = trending_repos[i].stars_today

LanguagesOf(repos) == {repos[i].language : i \in DOMAIN repos}

\* C8: the fallback generator returns a structurally complete result:
\* per_item has the length and order of the Records, the first 3 entries
\* score 9 and the later ones 7, item_count is the number of Records and
\* distinct_language_count the number of distinct languages, which are the
\* keys of language_tags.
C8_MockDataComplete ==
  (render_result = "ok") =>
     /\ ~mock_data.isNone
     /\ mock_data.keys = {"summary", "stats", "language_distribution", "projects"}
     /\ Len(mock_data.projects) = Len(trending_repos)
     /\ \A i \in 1..Len(trending_repos) :
          /\ mock_data.projects[i].keys = ProjectKeys
          /\ mock_data.projects[i].name = trending_repos[i].name
          /\ mock_data.projects[i].score = Num(IF i <= 3 THEN 9 ELSE 7)
     /\ mock_data.stats.total_projects = Len(trending_repos)
     /\ mock_data.stats.language_count = Cardinality(LanguagesOf(trending_repos))
     /\ DOMAIN mock_data.language_distribution = LanguagesOf(trending_repos)

C8_Witness ==
  /\ render_result = "ok"
  /\ Len(trending_repos) >= 4
  /\ Cardinality(LanguagesOf(trending_repos)) = 2
  /\ mock_data.stats.language_count = 2

OpOrder(op) ==
  CASE op = "get" -> 1 [] op = "ai" -> 2 [] op = "write" -> 3 [] op = "send" -> 4

\* C9: the external operations start in the order GET, enrichment request,
\* preview write, email send, each at most once; a run that has started has
\* issued the GET exactly once; an operation starts only when no other one
\* is in flight.
C9_StrictSequence ==
  /\ \A i, j \in DOMAIN ops : i < j => OpOrder(ops[i]) < OpOrder(ops[j])
  /\ pc # "start" => (ops # <<>> /\ ops[1] = "get")
  /\ Cardinality(inflight) <= 1
  /\ \A op \in inflight : ops # <<>> /\ ops[Len(ops)] = op

C9_Witness == pc = "done" /\ ops = <<"get", "ai", "write", "send">>

\* C10: a run that submitted the send request ends with exit code 0 whether
\* the send succeeded or failed; a failed send is logged, and the preview
\* artifact still holds the Report.
C10_SendFailureNotFatal ==
  (pc = "done" /\ "send" \in Range(ops)) =>
     /\ exit_code = 0
     /\ preview = [exists |-> TRUE, content |-> html_content]
     /\ outbox = <<>> => "Error sending email" \in log
     /\ "An error occurred" \notin log

C10_Witness ==
  /\ pc = "done"
  /\ "Error sending email" \in log
  /\ outbox = <<>>
  /\ Len(Entries) > 0

====
